---- MODULE Spec2Model ----
(***************************************************************************)
(* The configuration store of nconnect (package config): a Config guarded  *)
(* by one sync.RWMutex whose mutators write the whole struct through to a  *)
(* JSON file, and the callers that use it concurrently.                    *)
(***************************************************************************)
EXTENDS Integers, Sequences, FiniteSets, TLC

(***************************************************************************)
(* Bounds of the model.                                                    *)
(***************************************************************************)
\* longest list a caller passes to Set/Add/Remove
MaxArgLen == 2
\* number of calls of NewConfig and of mutators started in one behaviour
MaxCalls == 2

\* the goroutines that share the Config
Procs == {"p1", "p2"}
NoProc == "none"

\* address strings callers pass
Addr == {"a", "b"}

\* ed25519.SeedSize
SeedSize == 32

(***************************************************************************)
(* Go values.  A []string is nil or a (possibly empty) sequence; a string  *)
(* that is hex-decoded is a sequence of characters.                        *)
(***************************************************************************)
NilSlice == [isNil |-> TRUE, elems |-> <<>>]

Slice(s) == [isNil |-> FALSE, elems |-> s]

SeqsUpTo(S, n) == UNION {[1..k -> S] : k \in 0..n}

Range(s) == {s[i] : i \in 1..Len(s)}

Rep(ch, n) == [i \in 1..n |-> ch]

HexDigits == {"0", "1", "2", "3", "4", "5", "6", "7", "8", "9",
              "a", "b", "c", "d", "e", "f", "A", "B", "C", "D", "E", "F"}

\* hex.DecodeString(s): the number of bytes decoded and whether it failed
\* (a character that is no hex digit, or an odd number of characters)
HexDecodeString(s) ==
    [err |-> (\E i \in 1..Len(s) : s[i] \notin HexDigits) \/ Len(s) % 2 = 1,
     n   |-> Len(s) \div 2]

(***************************************************************************)
(* util.MergeStrings and util.RemoveStrings.                               *)
(***************************************************************************)
RECURSIVE MergeInto(_, _)
MergeInto(acc, xs) ==
    IF xs = <<>> THEN acc
    ELSE MergeInto(IF Head(xs) \in Range(acc) THEN acc ELSE Append(acc, Head(xs)),
                   Tail(xs))

MergeStrings(s1, s2) ==
    LET r == MergeInto(s1.elems, s2.elems)
    IN  [isNil |-> s1.isNil /\ r = <<>>, elems |-> r]

RECURSIVE Without(_, _)
Without(xs, drop) ==
    IF xs = <<>> THEN <<>>
    ELSE IF Head(xs) \in drop THEN Without(Tail(xs), drop)
         ELSE <<Head(xs)>> \o Without(Tail(xs), drop)

RemoveStrings(s1, s2) ==
    LET r == Without(s1.elems, Range(s2.elems))
    IN  [isNil |-> s1.isNil /\ r = <<>>, elems |-> r]

(***************************************************************************)
(* The Config struct (the fields the mutators write, and its path).        *)
(***************************************************************************)
Path == "config.json"

ZeroConfig ==
    [path |-> "", Seed |-> <<>>, DisableAdminHTTPAPI |-> FALSE,
     TunaServiceName |-> "", TunaCountry |-> NilSlice,
     TunaAllowNknAddr |-> NilSlice, TunaDisallowNknAddr |-> NilSlice,
     TunaAllowIp |-> NilSlice, TunaDisallowIp |-> NilSlice,
     AcceptAddrs |-> NilSlice, AdminAddrs |-> NilSlice]

NewConfig ==
    [ZeroConfig EXCEPT !.AcceptAddrs = Slice(<<>>), !.AdminAddrs = Slice(<<>>)]

(***************************************************************************)
(* encoding/json on Config.  A document gives every key a JSON value       *)
(* [t, v]: t is "absent" (no such key), "null", "str", "bool", "arr" or    *)
(* "num"; v is the payload, of the Go type of the key's field.             *)
(***************************************************************************)
JAbsent(zero) == [t |-> "absent", v |-> zero]

JNull(zero) == [t |-> "null", v |-> zero]

JVal(tag, val) == [t |-> tag, v |-> val]

\* a []string field tagged omitempty: left out when its length is 0
MarshalOmitEmptyList(s) ==
    IF Len(s.elems) = 0 THEN JAbsent(<<>>) ELSE JVal("arr", s.elems)

\* acceptAddrs / adminAddrs as they would be written with omitempty
MarshalListOmitsEmpty(s) ==
    IF Len(s.elems) = 0 THEN JAbsent(<<>>) ELSE JVal("arr", s.elems)

\* a []string field without omitempty: null for a nil slice
MarshalList(s) ==
    IF s.isNil THEN JNull(<<>>) ELSE JVal("arr", s.elems)

\* json.MarshalIndent(c, "", " "): path and lock are unexported and left out
Marshal(c) ==
    [seed                |-> JVal("str", c.Seed),
     disableAdminHttpApi |-> IF c.DisableAdminHTTPAPI THEN JVal("bool", TRUE)
                                                      ELSE JAbsent(FALSE),
     tunaServiceName     |-> IF c.TunaServiceName = "" THEN JAbsent("")
                                                       ELSE JVal("str", c.TunaServiceName),
     tunaCountry         |-> MarshalOmitEmptyList(c.TunaCountry),
     tunaAllowNknAddr    |-> MarshalOmitEmptyList(c.TunaAllowNknAddr),
     tunaDisallowNknAddr |-> MarshalOmitEmptyList(c.TunaDisallowNknAddr),
     tunaAllowIp         |-> MarshalOmitEmptyList(c.TunaAllowIp),
     tunaDisallowIp      |-> MarshalOmitEmptyList(c.TunaDisallowIp),
     acceptAddrs         |-> MarshalList(c.AcceptAddrs),
     adminAddrs          |-> MarshalList(c.AdminAddrs)]

\* decoding one key into a field of Go type tag: an absent key or a null
\* leaves the field as it is, a value of another type is an error
DecodeOK(j, tag) == j.t \in {"absent", "null", tag}

DecodeScalar(j, tag, old) == IF j.t = tag THEN j.v ELSE old

DecodeList(j, old) ==
    IF j.t = "arr" THEN Slice(j.v)
    ELSE IF j.t = "null" THEN NilSlice
    ELSE old

\* json.Unmarshal(b, c) for a well-formed document b
Unmarshal(doc, c) ==
    [err |-> ~ (/\ DecodeOK(doc.seed, "str")
                /\ DecodeOK(doc.disableAdminHttpApi, "bool")
                /\ DecodeOK(doc.tunaServiceName, "str")
                /\ DecodeOK(doc.tunaCountry, "arr")
                /\ DecodeOK(doc.tunaAllowNknAddr, "arr")
                /\ DecodeOK(doc.tunaDisallowNknAddr, "arr")
                /\ DecodeOK(doc.tunaAllowIp, "arr")
                /\ DecodeOK(doc.tunaDisallowIp, "arr")
                /\ DecodeOK(doc.acceptAddrs, "arr")
                /\ DecodeOK(doc.adminAddrs, "arr")),
     c   |-> [c EXCEPT
                !.Seed                = DecodeScalar(doc.seed, "str", @),
                !.DisableAdminHTTPAPI = DecodeScalar(doc.disableAdminHttpApi, "bool", @),
                !.TunaServiceName     = DecodeScalar(doc.tunaServiceName, "str", @),
                !.TunaCountry         = DecodeList(doc.tunaCountry, @),
                !.TunaAllowNknAddr    = DecodeList(doc.tunaAllowNknAddr, @),
                !.TunaDisallowNknAddr = DecodeList(doc.tunaDisallowNknAddr, @),
                !.TunaAllowIp         = DecodeList(doc.tunaAllowIp, @),
                !.TunaDisallowIp      = DecodeList(doc.tunaDisallowIp, @),
                !.AcceptAddrs         = DecodeList(doc.acceptAddrs, @),
                !.AdminAddrs          = DecodeList(doc.adminAddrs, @)]]

(***************************************************************************)
(* The file at Path: absent, unreadable, not a JSON document, or one.      *)
(***************************************************************************)
\* the document {}
EmptyDoc ==
    [seed                |-> JAbsent(<<>>),
     disableAdminHttpApi |-> JAbsent(FALSE),
     tunaServiceName     |-> JAbsent(""),
     tunaCountry         |-> JAbsent(<<>>),
     tunaAllowNknAddr    |-> JAbsent(<<>>),
     tunaDisallowNknAddr |-> JAbsent(<<>>),
     tunaAllowIp         |-> JAbsent(<<>>),
     tunaDisallowIp      |-> JAbsent(<<>>),
     acceptAddrs         |-> JAbsent(<<>>),
     adminAddrs          |-> JAbsent(<<>>)]

FileOf(kind, doc) == [kind |-> kind, doc |-> doc]

Absent == FileOf("absent", EmptyDoc)

Unreadable == FileOf("unreadable", EmptyDoc)

Malformed == FileOf("malformed", EmptyDoc)

JsonFile(doc) == FileOf("json", doc)

\* os.WriteFile(path, b, 0666) succeeding
WriteFile(f, doc) == JsonFile(doc)

\* os.WriteFile failing: the file could not be opened and is as before, or
\* it was truncated and the write stopped part way
WriteFileFailed(f) == {f, Malformed}

(***************************************************************************)
(* Calls and their arguments.                                              *)
(***************************************************************************)
\* the lists passed to Set/Add/RemoveAcceptAddrs
ListArgs == {NilSlice} \cup {Slice(s) : s \in SeqsUpTo(Addr, MaxArgLen)}

\* the lists passed to Set/Add/RemoveAdminAddrs
AdminListArgs ==
    {NilSlice, Slice(<<>>), Slice(<<"a">>), Slice(<<"b">>), Slice(<<"a", "a">>)}

ValidSeedLower == Rep("a", 2 * SeedSize)

ValidSeedUpper == Rep("F", 2 * SeedSize)

SeedArgs ==
    {ValidSeedLower, ValidSeedUpper,
     <<"n", "o", "t", "-", "h", "e", "x">>,
     Rep("a", 2 * SeedSize - 1),
     Rep("a", 2 * SeedSize - 2),
     Rep("g", 2 * SeedSize)}

TunaOf(name, list) ==
    [serviceName |-> name, country |-> list, allowNknAddr |-> list,
     disallowNknAddr |-> list, allowIp |-> list, disallowIp |-> list]

ZeroTuna == TunaOf("", NilSlice)

TunaArgs ==
    {TunaOf("", Slice(<<>>)),
     TunaOf("svc1", Slice(<<"t1">>)),
     TunaOf("svc2", Slice(<<"t2">>))}

Call(name, list, flag, seed, tuna) ==
    [name |-> name, list |-> list, flag |-> flag, seed |-> seed, tuna |-> tuna]

NoCall == Call("none", NilSlice, FALSE, <<>>, ZeroTuna)

\* SetSeed without its check of the length
SetSeedCheckNoLength(s) ==
    IF HexDecodeString(s).err THEN "validation" ELSE "nil"

\* the checks of SetSeed before it takes the lock
SetSeedCheck(s) ==
    LET seed == HexDecodeString(s)
    IN  IF seed.err THEN "validation"
        ELSE IF seed.n # SeedSize THEN "validation"
        ELSE "nil"

\* save returning nil without writing the file
saveNoWrite(c, f) == {[err |-> "nil", file |-> f]}

\* save without its test of the path
saveIgnoresPath(c, f) ==
    {[err |-> "nil", file |-> WriteFile(f, Marshal(c))]}
    \cup {[err |-> "persist", file |-> g] : g \in WriteFileFailed(f)}

\* Config.save: nothing without a path, else the whole struct is encoded
\* and written; the result and the file afterwards
save(c, f) ==
    IF Len(c.path) = 0
    THEN {[err |-> "nil", file |-> f]}
    ELSE {[err |-> "nil", file |-> WriteFile(f, Marshal(c))]}
         \cup {[err |-> "persist", file |-> g] : g \in WriteFileFailed(f)}

(***************************************************************************)
(* State.                                                                  *)
(***************************************************************************)
VARIABLES
    conf,      \* the Config the program holds
    loaded,    \* whether it holds one
    file,      \* the file at Path
    writer,    \* the goroutine holding c.lock for writing, or NoProc
    readers,   \* the goroutines holding c.lock for reading
    pc,        \* where each goroutine is in its call
    op,        \* the call each goroutine is in
    pre,       \* the Config as it was when the goroutine took the write lock
    last,      \* the call that returned most recently, and its error
    calls,     \* calls of NewConfig and of mutators started so far
    stage,     \* where StartClient is
    connected, \* whether the transport has signalled m.OnConnect
    inbox,     \* the messages in m.OnMessage.C, oldest first
    delivered, \* how many messages the transport has put there so far
    msg,       \* the message StartClient is handling
    replies,   \* the calls of msg.Reply so far
    validTokens \* the tokens tokenStore.IsValid accepts

\* the state of package config
confVars == <<conf, loaded, file, writer, readers, pc, op, pre, last, calls>>

\* the state of StartClient, its transport and the token store
adminVars == <<stage, connected, inbox, delivered, msg, replies, validTokens>>

vars == <<confVars, adminVars>>

\* no message: what msg is between two messages
NoMsg == [id |-> 0, src |-> "", data |-> "", token |-> "", authorized |-> FALSE]

\* what is kept of the call that returned most recently: its error, and its
\* name when it is LoadOrNewConfig, NewConfig or Save ("mutator" otherwise)
Returned(name, e) ==
    [name |-> IF name \in {"none", "LoadOrNewConfig", "NewConfig", "Save"}
              THEN name ELSE "mutator",
     err |-> e]

DocDuplicates ==
    [EmptyDoc EXCEPT !.acceptAddrs = JVal("arr", <<"a", "a">>),
                     !.adminAddrs = JVal("arr", <<"b", "b">>),
                     !.tunaServiceName = JVal("str", "svc1"),
                     !.tunaCountry = JVal("arr", <<"t1">>),
                     !.tunaAllowNknAddr = JVal("arr", <<"t1">>),
                     !.tunaDisallowNknAddr = JVal("arr", <<"t1">>),
                     !.tunaAllowIp = JVal("arr", <<"t1">>),
                     !.tunaDisallowIp = JVal("arr", <<"t1">>)]

DocBadType == [EmptyDoc EXCEPT !.acceptAddrs = JVal("num", <<>>)]

InitFiles ==
    {Absent, Unreadable, JsonFile(DocDuplicates), JsonFile(DocBadType)}

Init ==
    /\ conf = ZeroConfig
    /\ loaded = FALSE
    /\ file \in InitFiles
    /\ writer = NoProc
    /\ readers = {}
    /\ pc = [p \in Procs |-> "idle"]
    /\ op = [p \in Procs |-> NoCall]
    /\ pre = [p \in Procs |-> ZeroConfig]
    /\ last = Returned("none", "nil")
    /\ calls = 0
    /\ stage = "init"
    /\ connected = FALSE
    /\ inbox = <<>>
    /\ delivered = 0
    /\ msg = NoMsg
    /\ replies = <<>>
    /\ validTokens = {}

(***************************************************************************)
(* Construction.                                                           *)
(***************************************************************************)
AllIdle == \A p \in Procs : pc[p] = "idle"

NewConfigCall ==
    /\ ~ loaded
    /\ AllIdle
    /\ calls < MaxCalls
    /\ conf' = NewConfig
    /\ loaded' = TRUE
    /\ last' = Returned("NewConfig", "nil")
    /\ calls' = calls + 1
    /\ UNCHANGED <<file, writer, readers, pc, op, pre>>
    /\ UNCHANGED adminVars

\* LoadOrNewConfig(Path) when os.ReadFile did not say that the file does
\* not exist: its error, or the error of json.Unmarshal, or the decoded
\* Config bound to Path
LoadExisting(f) ==
    IF f.kind = "unreadable"
    THEN {[ok |-> FALSE, c |-> ZeroConfig, err |-> "read", file |-> f]}
    ELSE IF f.kind = "malformed"
    THEN {[ok |-> FALSE, c |-> ZeroConfig, err |-> "decode", file |-> f]}
    ELSE LET u == Unmarshal(f.doc, [ZeroConfig EXCEPT !.path = Path])
         IN  IF u.err
             THEN {[ok |-> FALSE, c |-> ZeroConfig, err |-> "decode", file |-> f]}
             ELSE {[ok |-> TRUE, c |-> u.c, err |-> "nil", file |-> f]}

\* LoadOrNewConfig without the c.save() for a file that does not exist
LoadOrNewConfigNoSave(f) ==
    IF f.kind = "absent"
    THEN {[ok |-> TRUE, c |-> [NewConfig EXCEPT !.path = Path], err |-> "nil",
           file |-> f]}
    ELSE LoadExisting(f)

\* what LoadOrNewConfig(Path) returns for file f: the Config (ok), the error,
\* and the file afterwards
LoadOrNewConfigResults(f) ==
    IF f.kind = "absent"
    THEN LET c == [NewConfig EXCEPT !.path = Path]
         IN  {[ok |-> r.err = "nil",
               c |-> IF r.err = "nil" THEN c ELSE ZeroConfig,
               err |-> r.err, file |-> r.file] : r \in save(c, f)}
    ELSE LoadExisting(f)

LoadOrNewConfig ==
    /\ AllIdle
    /\ \E r \in LoadOrNewConfigResults(file) :
          /\ conf' = r.c
          /\ loaded' = r.ok
          /\ file' = r.file
          /\ last' = Returned("LoadOrNewConfig", r.err)
    /\ UNCHANGED <<writer, readers, pc, op, pre, calls>>
    /\ UNCHANGED adminVars

(***************************************************************************)
(* c.lock, a sync.RWMutex.                                                 *)
(***************************************************************************)
\* Lock that does not wait for the readers
CanLockIgnoresReaders == writer = NoProc

CanLock == writer = NoProc /\ readers = {}

\* RLock that does not wait for the writer
CanRLockAlways == TRUE

CanRLock == writer = NoProc

\* c.lock.Lock() at the head of mutator o and the statement after it, which
\* leaves c as the Config and the goroutine at next
Lock(p, o, c, next) ==
    /\ loaded
    /\ pc[p] = "idle"
    /\ calls < MaxCalls
    /\ CanLock
    /\ writer' = p
    /\ op' = [op EXCEPT ![p] = o]
    /\ pre' = [pre EXCEPT ![p] = conf]
    /\ conf' = c
    /\ pc' = [pc EXCEPT ![p] = next]
    /\ calls' = calls + 1
    /\ UNCHANGED <<loaded, file, readers, last>>
    /\ UNCHANGED adminVars

\* a later assignment to c under the write lock
Assign(p, here, c, next) ==
    /\ pc[p] = here
    /\ writer = p
    /\ conf' = c
    /\ pc' = [pc EXCEPT ![p] = next]
    /\ UNCHANGED <<loaded, file, writer, readers, op, pre, last, calls>>
    /\ UNCHANGED adminVars

ListCall(name, l) == Call(name, l, FALSE, <<>>, ZeroTuna)

SetAcceptAddrs(p) ==
    \E l \in ListArgs :
        Lock(p, ListCall("SetAcceptAddrs", l),
             [conf EXCEPT !.AcceptAddrs = l], "save")

\* AddAcceptAddrs assigning its argument instead of the merged list
AddAcceptAddrsAssigns(p) ==
    \E l \in ListArgs :
        Lock(p, ListCall("AddAcceptAddrs", l),
             [conf EXCEPT !.AcceptAddrs = l], "save")

AddAcceptAddrs(p) ==
    \E l \in ListArgs :
        Lock(p, ListCall("AddAcceptAddrs", l),
             [conf EXCEPT !.AcceptAddrs = MergeStrings(@, l)], "save")

\* RemoveAcceptAddrs with the arguments of util.RemoveStrings swapped
RemoveAcceptAddrsSwapped(p) ==
    \E l \in ListArgs :
        Lock(p, ListCall("RemoveAcceptAddrs", l),
             [conf EXCEPT !.AcceptAddrs = RemoveStrings(l, @)], "save")

RemoveAcceptAddrs(p) ==
    \E l \in ListArgs :
        Lock(p, ListCall("RemoveAcceptAddrs", l),
             [conf EXCEPT !.AcceptAddrs = RemoveStrings(@, l)], "save")

SetAdminAddrs(p) ==
    \E l \in AdminListArgs :
        Lock(p, ListCall("SetAdminAddrs", l),
             [conf EXCEPT !.AdminAddrs = l], "save")

\* AddAdminAddrs appending its argument instead of merging it
AddAdminAddrsAppends(p) ==
    \E l \in AdminListArgs :
        Lock(p, ListCall("AddAdminAddrs", l),
             [conf EXCEPT !.AdminAddrs = Slice(@.elems \o l.elems)], "save")

AddAdminAddrs(p) ==
    \E l \in AdminListArgs :
        Lock(p, ListCall("AddAdminAddrs", l),
             [conf EXCEPT !.AdminAddrs = MergeStrings(@, l)], "save")

\* RemoveAdminAddrs computing the new list from a copy of the Config that
\* the goroutine took before it had the lock, not from c.AdminAddrs
RemoveAdminAddrsStale(p) ==
    \E l \in AdminListArgs :
        Lock(p, ListCall("RemoveAdminAddrs", l),
             [conf EXCEPT !.AdminAddrs = RemoveStrings(pre[p].AdminAddrs, l)],
             "save")

RemoveAdminAddrs(p) ==
    \E l \in AdminListArgs :
        Lock(p, ListCall("RemoveAdminAddrs", l),
             [conf EXCEPT !.AdminAddrs = RemoveStrings(@, l)], "save")

SetAdminHTTPAPI(p) ==
    \E b \in BOOLEAN :
        Lock(p, Call("SetAdminHTTPAPI", NilSlice, b, <<>>, ZeroTuna),
             [conf EXCEPT !.DisableAdminHTTPAPI = b], "save")

\* SetSeed(s) is called: its checks come before the lock
SetSeed(p) ==
    /\ loaded
    /\ pc[p] = "idle"
    /\ calls < MaxCalls
    /\ \E s \in SeedArgs :
          op' = [op EXCEPT ![p] = Call("SetSeed", NilSlice, FALSE, s, ZeroTuna)]
    /\ pc' = [pc EXCEPT ![p] = "SetSeed"]
    /\ calls' = calls + 1
    /\ UNCHANGED <<conf, loaded, file, writer, readers, pre, last>>
    /\ UNCHANGED adminVars

\* a check of SetSeed fails: it returns the error
SetSeedInvalid(p) ==
    /\ pc[p] = "SetSeed"
    /\ SetSeedCheck(op[p].seed) # "nil"
    /\ last' = Returned("SetSeed", SetSeedCheck(op[p].seed))
    /\ pc' = [pc EXCEPT ![p] = "idle"]
    /\ op' = [op EXCEPT ![p] = NoCall]
    /\ UNCHANGED <<conf, loaded, file, writer, readers, pre, calls>>
    /\ UNCHANGED adminVars

\* the checks of SetSeed pass: the lock, and c.Seed = s
SetSeedLock(p) ==
    /\ pc[p] = "SetSeed"
    /\ SetSeedCheck(op[p].seed) = "nil"
    /\ CanLock
    /\ writer' = p
    /\ pre' = [pre EXCEPT ![p] = conf]
    /\ conf' = [conf EXCEPT !.Seed = op[p].seed]
    /\ pc' = [pc EXCEPT ![p] = "save"]
    /\ UNCHANGED <<loaded, file, readers, op, last, calls>>
    /\ UNCHANGED adminVars

\* SetTunaConfig: the lock and the six assignments, in the order of the source
SetTunaConfig(p) ==
    \E t \in TunaArgs :
        Lock(p, Call("SetTunaConfig", NilSlice, FALSE, <<>>, t),
             [conf EXCEPT !.TunaServiceName = t.serviceName], "TunaCountry")

SetTunaCountry(p) ==
    Assign(p, "TunaCountry",
           [conf EXCEPT !.TunaCountry = op[p].tuna.country], "TunaAllowNknAddr")

SetTunaAllowNknAddr(p) ==
    Assign(p, "TunaAllowNknAddr",
           [conf EXCEPT !.TunaAllowNknAddr = op[p].tuna.allowNknAddr],
           "TunaDisallowNknAddr")

SetTunaDisallowNknAddr(p) ==
    Assign(p, "TunaDisallowNknAddr",
           [conf EXCEPT !.TunaDisallowNknAddr = op[p].tuna.disallowNknAddr],
           "TunaAllowIp")

SetTunaAllowIp(p) ==
    Assign(p, "TunaAllowIp",
           [conf EXCEPT !.TunaAllowIp = op[p].tuna.allowIp], "TunaDisallowIp")

SetTunaDisallowIp(p) ==
    Assign(p, "TunaDisallowIp",
           [conf EXCEPT !.TunaDisallowIp = op[p].tuna.disallowIp], "save")

Save(p) ==
    Lock(p, Call("Save", NilSlice, FALSE, <<>>, ZeroTuna), conf, "save")

\* a mutator that puts the Config back when c.save() fails
ReturnSaveRollsBack(p) ==
    /\ pc[p] = "save"
    /\ writer = p
    /\ \E r \in save(conf, file) :
          /\ file' = r.file
          /\ last' = Returned(op[p].name, r.err)
          /\ conf' = IF r.err = "nil" THEN conf ELSE pre[p]
    /\ writer' = NoProc
    /\ pc' = [pc EXCEPT ![p] = "idle"]
    /\ op' = [op EXCEPT ![p] = NoCall]
    /\ pre' = [pre EXCEPT ![p] = ZeroConfig]
    /\ UNCHANGED <<loaded, readers, calls>>
    /\ UNCHANGED adminVars

\* a save that rewrites, in a file that holds a document, only the keys
\* that the call changed
ReturnSavePatches(p) ==
    /\ pc[p] = "save"
    /\ writer = p
    /\ \E r \in save(conf, file) :
          /\ file' = IF r.err = "nil" /\ file.kind = "json" /\ r.file.kind = "json"
                     THEN JsonFile([k \in DOMAIN file.doc |->
                                      IF Marshal(conf)[k] # Marshal(pre[p])[k]
                                      THEN Marshal(conf)[k] ELSE file.doc[k]])
                     ELSE r.file
          /\ last' = Returned(op[p].name, r.err)
    /\ writer' = NoProc
    /\ pc' = [pc EXCEPT ![p] = "idle"]
    /\ op' = [op EXCEPT ![p] = NoCall]
    /\ pre' = [pre EXCEPT ![p] = ZeroConfig]
    /\ UNCHANGED <<conf, loaded, readers, calls>>
    /\ UNCHANGED adminVars

\* return c.save(), the statement every mutator ends with, and the deferred
\* c.lock.Unlock()
ReturnSave(p) ==
    /\ pc[p] = "save"
    /\ writer = p
    /\ \E r \in save(conf, file) :
          /\ file' = r.file
          /\ last' = Returned(op[p].name, r.err)
    /\ writer' = NoProc
    /\ pc' = [pc EXCEPT ![p] = "idle"]
    /\ op' = [op EXCEPT ![p] = NoCall]
    /\ pre' = [pre EXCEPT ![p] = ZeroConfig]
    /\ UNCHANGED <<conf, loaded, readers, calls>>
    /\ UNCHANGED adminVars

\* c.lock.RLock() at the head of a getter
RLock(p) ==
    /\ loaded
    /\ pc[p] = "idle"
    /\ CanRLock
    /\ readers' = readers \cup {p}
    /\ pc' = [pc EXCEPT ![p] = "rlocked"]
    /\ UNCHANGED <<conf, loaded, file, writer, op, pre, last, calls>>
    /\ UNCHANGED adminVars

\* return c.AcceptAddrs / c.AdminAddrs and the deferred c.lock.RUnlock()
RUnlock(p) ==
    /\ pc[p] = "rlocked"
    /\ readers' = readers \ {p}
    /\ pc' = [pc EXCEPT ![p] = "idle"]
    /\ UNCHANGED <<conf, loaded, file, writer, op, pre, last, calls>>
    /\ UNCHANGED adminVars

Next ==
    \/ NewConfigCall
    \/ LoadOrNewConfig
    \/ \E p \in Procs :
          \/ SetAcceptAddrs(p)
          \/ AddAcceptAddrs(p)
          \/ RemoveAcceptAddrs(p)
          \/ SetAdminAddrs(p)
          \/ AddAdminAddrs(p)
          \/ RemoveAdminAddrs(p)
          \/ SetAdminHTTPAPI(p)
          \/ SetSeed(p)
          \/ SetSeedInvalid(p)
          \/ SetSeedLock(p)
          \/ SetTunaConfig(p)
          \/ SetTunaCountry(p)
          \/ SetTunaAllowNknAddr(p)
          \/ SetTunaDisallowNknAddr(p)
          \/ SetTunaAllowIp(p)
          \/ SetTunaDisallowIp(p)
          \/ Save(p)
          \/ ReturnSave(p)
          \/ RLock(p)
          \/ RUnlock(p)

Spec == Init /\ [][Next]_vars

(***************************************************************************)
(* StartClient: the admin loop, its transport and the token store.        *)
(***************************************************************************)
MaxMsgs == 3

\* the capacity of m.OnMessage.C
MaxInbox == 2

\* the goroutine that runs StartClient
AdminProc == "admin"

\* another context that calls the Config (a local command, say)
OtherProc == "p2"

\* a token the store has issued, and one it has not (or no longer holds)
IssuedToken == "tok"

UnknownToken == "old"

\* msg.Data: bytes that are not JSON, an envelope without a token, and
\* envelopes with a token
NotJson == "not-json"

Payloads == {NotJson, "{}", "{token:tok}", "{token:old}"}

\* json.Unmarshal(msg.Data, req): the error, and req.Token
UnmarshalReq(data) ==
    CASE data = "{}"          -> [err |-> FALSE, token |-> ""]
      [] data = "{token:tok}" -> [err |-> FALSE, token |-> IssuedToken]
      [] data = "{token:old}" -> [err |-> FALSE, token |-> UnknownToken]
      [] OTHER                -> [err |-> TRUE, token |-> ""]

\* a message of the transport: msg.Src and msg.Data
Message(id, src, data) ==
    [id |-> id, src |-> src, data |-> data, token |-> "", authorized |-> FALSE]

\* tokenStore.IsValid(token)
IsValid(token) == token \in validTokens

\* a pattern of adminAddrs is an address: as a regular expression anchored
\* to the full string it matches that address only
Matches(pattern, s) == pattern = s

\* util.MatchRegex(patterns, s)
MatchRegex(patterns, s) ==
    \E i \in 1..Len(patterns.elems) : Matches(patterns.elems[i], s)

\* the condition of the if at the head of the loop body, negated: the
\* message is let through
Authorized(patterns, m) == MatchRegex(patterns, m.src) \/ IsValid(m.token)

\* the commands handleRequest routes to a mutator of adminAddrs
HandlerCommands == {"setAdminAddrs", "addAdminAddrs", "removeAdminAddrs"}

HandlerArgs == {Slice(<<"a">>), Slice(<<"b">>)}

\* the Config the mutator of command cmd leaves
HandlerAssign(cmd, l) ==
    CASE cmd = "setAdminAddrs"    -> [conf EXCEPT !.AdminAddrs = l]
      [] cmd = "addAdminAddrs"    -> [conf EXCEPT !.AdminAddrs = MergeStrings(@, l)]
      [] cmd = "removeAdminAddrs" -> [conf EXCEPT !.AdminAddrs = RemoveStrings(@, l)]

\* main has loaded the Config, an admin address is listed and a token issued
AdminInit ==
    /\ conf = [NewConfig EXCEPT !.path = Path, !.AdminAddrs = Slice(<<"a">>)]
    /\ loaded = TRUE
    /\ file = JsonFile(Marshal(conf))
    /\ writer = NoProc
    /\ readers = {}
    /\ pc = [p \in Procs |-> "idle"]
    /\ op = [p \in Procs |-> NoCall]
    /\ pre = [p \in Procs |-> ZeroConfig]
    /\ last = Returned("none", "nil")
    /\ calls = 0
    /\ stage = "init"
    /\ connected = FALSE
    /\ inbox = <<>>
    /\ delivered = 0
    /\ msg = NoMsg
    /\ replies = <<>>
    /\ validTokens = {IssuedToken}

\* nkn.NewMultiClient returns the client or an error, which StartClient
\* returns
StartClient ==
    /\ stage = "init"
    /\ \E ok \in BOOLEAN : stage' = IF ok THEN "connecting" ELSE "failed"
    /\ UNCHANGED <<connected, inbox, delivered, msg, replies, validTokens>>
    /\ UNCHANGED confVars

\* the transport signals m.OnConnect
Connect ==
    /\ stage \notin {"init", "failed"}
    /\ ~ connected
    /\ connected' = TRUE
    /\ UNCHANGED <<stage, inbox, delivered, msg, replies, validTokens>>
    /\ UNCHANGED confVars

\* the transport puts a message into m.OnMessage.C
Deliver ==
    /\ stage \notin {"init", "failed"}
    /\ delivered < MaxMsgs
    /\ Len(inbox) < MaxInbox
    /\ \E src \in Addr, data \in Payloads :
          inbox' = Append(inbox, Message(delivered + 1, src, data))
    /\ delivered' = delivered + 1
    /\ UNCHANGED <<stage, connected, msg, replies, validTokens>>
    /\ UNCHANGED confVars

\* the token store drops the token (its lifetime is over)
Expire ==
    /\ validTokens # {}
    /\ validTokens' = {}
    /\ UNCHANGED <<stage, connected, inbox, delivered, msg, replies>>
    /\ UNCHANGED confVars

\* <-m.OnConnect.C returned without the signal
AwaitConnectNoSignal ==
    /\ stage = "connecting"
    /\ stage' = "listening"
    /\ UNCHANGED <<connected, inbox, delivered, msg, replies, validTokens>>
    /\ UNCHANGED confVars

\* <-m.OnConnect.C
AwaitConnect ==
    /\ stage = "connecting"
    /\ connected
    /\ stage' = "listening"
    /\ UNCHANGED <<connected, inbox, delivered, msg, replies, validTokens>>
    /\ UNCHANGED confVars

\* a receive that takes the newest message of the channel
ReceiveNewest ==
    /\ stage = "listening"
    /\ inbox # <<>>
    /\ msg' = inbox[Len(inbox)]
    /\ inbox' = SubSeq(inbox, 1, Len(inbox) - 1)
    /\ stage' = "received"
    /\ UNCHANGED <<connected, delivered, replies, validTokens>>
    /\ UNCHANGED confVars

\* msg := <-m.OnMessage.C
Receive ==
    /\ stage = "listening"
    /\ inbox # <<>>
    /\ msg' = Head(inbox)
    /\ inbox' = Tail(inbox)
    /\ stage' = "received"
    /\ UNCHANGED <<connected, delivered, replies, validTokens>>
    /\ UNCHANGED confVars

\* a loop that returns when json.Unmarshal fails
DecodeRequestStops ==
    /\ stage = "received"
    /\ LET r == UnmarshalReq(msg.data)
       IN  IF r.err
           THEN stage' = "failed" /\ msg' = NoMsg
           ELSE stage' = "decoded" /\ msg' = [msg EXCEPT !.token = r.token]
    /\ UNCHANGED <<connected, inbox, delivered, replies, validTokens>>
    /\ UNCHANGED confVars

\* json.Unmarshal(msg.Data, req), and continue when it fails
DecodeRequest ==
    /\ stage = "received"
    /\ LET r == UnmarshalReq(msg.data)
       IN  IF r.err
           THEN stage' = "listening" /\ msg' = NoMsg
           ELSE stage' = "decoded" /\ msg' = [msg EXCEPT !.token = r.token]
    /\ UNCHANGED <<connected, inbox, delivered, replies, validTokens>>
    /\ UNCHANGED confVars

\* the admin addresses main was started with
StartAdminAddrs == Slice(<<"a">>)

\* an authorization against the admin addresses StartClient was started with
AuthorizeAtStart ==
    /\ stage = "decoded"
    /\ CanRLock
    /\ IF Authorized(StartAdminAddrs, msg)
       THEN stage' = "dispatching" /\ msg' = [msg EXCEPT !.authorized = TRUE]
       ELSE stage' = "listening" /\ msg' = NoMsg
    /\ UNCHANGED <<connected, inbox, delivered, replies, validTokens>>
    /\ UNCHANGED confVars

\* an authorization that lets a message with any token through
AuthorizeAnyToken ==
    /\ stage = "decoded"
    /\ CanRLock
    /\ IF MatchRegex(conf.AdminAddrs, msg.src) \/ msg.token # ""
       THEN stage' = "dispatching" /\ msg' = [msg EXCEPT !.authorized = TRUE]
       ELSE stage' = "listening" /\ msg' = NoMsg
    /\ UNCHANGED <<connected, inbox, delivered, replies, validTokens>>
    /\ UNCHANGED confVars

\* an authorization that removes the sender from adminAddrs when it rejects
AuthorizeForgets ==
    /\ stage = "decoded"
    /\ CanRLock
    /\ IF Authorized(conf.AdminAddrs, msg)
       THEN /\ stage' = "dispatching"
            /\ msg' = [msg EXCEPT !.authorized = TRUE]
            /\ conf' = conf
       ELSE /\ stage' = "listening"
            /\ msg' = NoMsg
            /\ conf' = [conf EXCEPT !.AdminAddrs = Slice(<<>>)]
    /\ UNCHANGED <<connected, inbox, delivered, replies, validTokens>>
    /\ UNCHANGED <<loaded, file, writer, readers, pc, op, pre, last, calls>>

\* conf.GetAdminAddrs() under the read lock, util.MatchRegex on what it
\* returned, tokenStore.IsValid(req.Token) when no pattern matches, and
\* continue when neither holds
Authorize ==
    /\ stage = "decoded"
    /\ CanRLock
    /\ IF Authorized(conf.AdminAddrs, msg)
       THEN stage' = "dispatching" /\ msg' = [msg EXCEPT !.authorized = TRUE]
       ELSE stage' = "listening" /\ msg' = NoMsg
    /\ UNCHANGED <<connected, inbox, delivered, replies, validTokens>>
    /\ UNCHANGED confVars

\* handleRequest for a command that changes nothing of the Config
HandleRead ==
    /\ stage = "dispatching"
    /\ stage' = "encoding"
    /\ UNCHANGED <<connected, inbox, delivered, msg, replies, validTokens>>
    /\ UNCHANGED confVars

\* handleRequest for a command that calls a mutator of adminAddrs: the
\* mutator's c.lock.Lock() and its assignment
HandleLock ==
    /\ stage = "dispatching"
    /\ CanLock
    /\ \E cmd \in HandlerCommands, l \in HandlerArgs : conf' = HandlerAssign(cmd, l)
    /\ writer' = AdminProc
    /\ stage' = "handlerSave"
    /\ UNCHANGED <<connected, inbox, delivered, msg, replies, validTokens>>
    /\ UNCHANGED <<loaded, file, readers, pc, op, pre, last, calls>>

\* the mutator's return c.save() and c.lock.Unlock(); handleRequest makes
\* the response of what it returned
HandleSave ==
    /\ stage = "handlerSave"
    /\ writer = AdminProc
    /\ \E r \in save(conf, file) :
          /\ file' = r.file
          /\ last' = Returned("mutator", r.err)
    /\ writer' = NoProc
    /\ stage' = "encoding"
    /\ UNCHANGED <<connected, inbox, delivered, msg, replies, validTokens>>
    /\ UNCHANGED <<conf, loaded, readers, pc, op, pre, calls>>

\* json.Marshal(resp), and continue when it fails
MarshalResp ==
    /\ stage = "encoding"
    /\ \E ok \in BOOLEAN :
          IF ok THEN stage' = "replying" /\ msg' = msg
                ELSE stage' = "listening" /\ msg' = NoMsg
    /\ UNCHANGED <<connected, inbox, delivered, replies, validTokens>>
    /\ UNCHANGED confVars

\* a loop that calls msg.Reply again when it failed
ReplyRetries ==
    /\ stage = "replying"
    /\ replies' = Append(replies, [id |-> msg.id, to |-> msg.src])
    /\ \E ok \in BOOLEAN :
          IF ok \/ Len(replies) >= MaxMsgs
          THEN stage' = "listening" /\ msg' = NoMsg
          ELSE stage' = "replying" /\ msg' = msg
    /\ UNCHANGED <<connected, inbox, delivered, validTokens>>
    /\ UNCHANGED confVars

\* msg.Reply(string(b)), which sends to msg.Src, and the end of the loop
\* body, whether msg.Reply returned an error or not
Reply ==
    /\ stage = "replying"
    /\ replies' = Append(replies, [id |-> msg.id, to |-> msg.src])
    /\ stage' = "listening"
    /\ msg' = NoMsg
    /\ UNCHANGED <<connected, inbox, delivered, validTokens>>
    /\ UNCHANGED confVars

\* StartClient, its transport and the token store; only StartClient calls
\* the Config
AdminNext ==
    \/ StartClient
    \/ Connect
    \/ Deliver
    \/ Expire
    \/ AwaitConnect
    \/ Receive
    \/ DecodeRequest
    \/ Authorize
    \/ HandleRead
    \/ HandleLock
    \/ HandleSave
    \/ MarshalResp
    \/ Reply

AdminSpec == AdminInit /\ [][AdminNext]_vars

\* the transport puts a message without a token into m.OnMessage.C
DeliverNoToken ==
    /\ stage \notin {"init", "failed"}
    /\ delivered < MaxMsgs
    /\ Len(inbox) < MaxInbox
    /\ \E src \in Addr :
          inbox' = Append(inbox, Message(delivered + 1, src, "{}"))
    /\ delivered' = delivered + 1
    /\ UNCHANGED <<stage, connected, msg, replies, validTokens>>
    /\ UNCHANGED confVars

\* StartClient handling messages that carry no token, while another context
\* calls the mutators of adminAddrs
SharedNext ==
    \/ StartClient
    \/ Connect
    \/ DeliverNoToken
    \/ AwaitConnect
    \/ Receive
    \/ DecodeRequest
    \/ Authorize
    \/ HandleRead
    \/ HandleLock
    \/ HandleSave
    \/ MarshalResp
    \/ Reply
    \/ SetAdminAddrs(OtherProc)
    \/ AddAdminAddrs(OtherProc)
    \/ RemoveAdminAddrs(OtherProc)
    \/ ReturnSave(OtherProc)

SharedSpec == AdminInit /\ [][SharedNext]_vars

(***************************************************************************)
(* Properties.                                                             *)
(***************************************************************************)
Mutators ==
    {"SetAcceptAddrs", "AddAcceptAddrs", "RemoveAcceptAddrs", "SetAdminAddrs",
     "AddAdminAddrs", "RemoveAdminAddrs", "SetAdminHTTPAPI", "SetSeed",
     "SetTunaConfig", "Save"}

\* no goroutine is inside a mutator
NoMutatorInProgress == \A p \in Procs : pc[p] \in {"idle", "rlocked"}

\* two Configs with the same path and the same value in every field (a nil
\* list and an empty one are the same list of strings)
SameValue(c, d) ==
    /\ c.path = d.path
    /\ c.Seed = d.Seed
    /\ c.DisableAdminHTTPAPI = d.DisableAdminHTTPAPI
    /\ c.TunaServiceName = d.TunaServiceName
    /\ c.TunaCountry.elems = d.TunaCountry.elems
    /\ c.TunaAllowNknAddr.elems = d.TunaAllowNknAddr.elems
    /\ c.TunaDisallowNknAddr.elems = d.TunaDisallowNknAddr.elems
    /\ c.TunaAllowIp.elems = d.TunaAllowIp.elems
    /\ c.TunaDisallowIp.elems = d.TunaDisallowIp.elems
    /\ c.AcceptAddrs.elems = d.AcceptAddrs.elems
    /\ c.AdminAddrs.elems = d.AdminAddrs.elems

\* loading file f gives a Config of the same value as c
ReloadsTo(f, c) ==
    /\ f.kind = "json"
    /\ \A r \in LoadOrNewConfigResults(f) : r.ok /\ SameValue(r.c, c)

\* C1: on a Config bound to a path, whenever no mutator is in progress and
\* the mutator that returned most recently returned no error, loading the
\* file gives a Config equal to the one in memory.
C1_WriteThrough ==
    (/\ loaded
     /\ conf.path = Path
     /\ NoMutatorInProgress
     /\ last.name \in {"mutator", "Save"}
     /\ last.err = "nil")
    => ReloadsTo(file, conf)

\* two mutators have returned on a bound Config, the second without error
C1_Witness ==
    /\ loaded
    /\ conf.path = Path
    /\ NoMutatorInProgress
    /\ last = Returned("SetAcceptAddrs", "nil")
    /\ calls >= 2
    /\ conf.AcceptAddrs = Slice(<<"a", "b">>)
    /\ conf.DisableAdminHTTPAPI
    /\ file = JsonFile(Marshal(conf))

\* the goroutines that have made the assignment of a call named in names and
\* still hold the write lock
After(names) == {p \in Procs : pc[p] = "save" /\ op[p].name \in names}

NoDuplicates(s) == \A i, j \in 1..Len(s) : s[i] = s[j] => i = j

\* the position of the first e in xs
FirstIndex(xs, e) == CHOOSE i \in 1..Len(xs) : xs[i] = e /\ \A j \in 1..(i - 1) : xs[j] # e

\* r is prev, then the entries of xs that are not in prev, each once, in the
\* order in which xs first has them
IsOrderedUnion(prev, xs, r) ==
    /\ Len(r) >= Len(prev)
    /\ SubSeq(r, 1, Len(prev)) = prev
    /\ LET new == SubSeq(r, Len(prev) + 1, Len(r))
       IN  /\ Range(new) = Range(xs) \ Range(prev)
           /\ NoDuplicates(new)
           /\ \A i, j \in 1..Len(new) :
                 i < j => FirstIndex(xs, new[i]) < FirstIndex(xs, new[j])

\* C2: AddAcceptAddrs(xs) / AddAdminAddrs(xs) leave the list as the previous
\* list in its order, followed by the entries of xs not already in it, in
\* the order of xs, each once; the other list is as before.
C2_AddIsOrderedUnion ==
    /\ \A p \in After({"AddAcceptAddrs"}) :
          /\ IsOrderedUnion(pre[p].AcceptAddrs.elems, op[p].list.elems,
                            conf.AcceptAddrs.elems)
          /\ conf.AdminAddrs = pre[p].AdminAddrs
    /\ \A p \in After({"AddAdminAddrs"}) :
          /\ IsOrderedUnion(pre[p].AdminAddrs.elems, op[p].list.elems,
                            conf.AdminAddrs.elems)
          /\ conf.AcceptAddrs = pre[p].AcceptAddrs

\* the list was [a], AddAcceptAddrs([b, a]) made it [a, b]
C2_Witness ==
    \E p \in After({"AddAcceptAddrs"}) :
        /\ pre[p].AcceptAddrs.elems = <<"a">>
        /\ op[p].list.elems = <<"b", "a">>
        /\ conf.AcceptAddrs.elems = <<"a", "b">>

\* r is prev without the entries that occur in xs
IsOrderedDifference(prev, xs, r) ==
    LET Kept(e) == e \notin Range(xs)
    IN  /\ r = SelectSeq(prev, Kept)
        /\ (Range(xs) \cap Range(prev) = {} => r = prev)

\* C3: RemoveAcceptAddrs(xs) / RemoveAdminAddrs(xs) leave the list as the
\* previous list without the entries that occur in xs, the others in their
\* order; when no entry of xs is in the list, the list is as before.
C3_RemoveIsOrderedDifference ==
    /\ \A p \in After({"RemoveAcceptAddrs"}) :
          /\ IsOrderedDifference(pre[p].AcceptAddrs.elems, op[p].list.elems,
                                 conf.AcceptAddrs.elems)
          /\ conf.AdminAddrs = pre[p].AdminAddrs
    /\ \A p \in After({"RemoveAdminAddrs"}) :
          /\ IsOrderedDifference(pre[p].AdminAddrs.elems, op[p].list.elems,
                                 conf.AdminAddrs.elems)
          /\ conf.AcceptAddrs = pre[p].AcceptAddrs

\* the list was [a, b], RemoveAcceptAddrs([a]) made it [b]
C3_Witness ==
    \E p \in After({"RemoveAcceptAddrs"}) :
        /\ pre[p].AcceptAddrs.elems = <<"a", "b">>
        /\ op[p].list.elems = <<"a">>
        /\ conf.AcceptAddrs.elems = <<"b">>

AddRemove ==
    {"AddAcceptAddrs", "RemoveAcceptAddrs", "AddAdminAddrs", "RemoveAdminAddrs"}

IsSeedHex(s) == Len(s) = 2 * SeedSize /\ \A i \in 1..Len(s) : s[i] \in HexDigits

\* C5: SetSeed(s) stores s exactly when s is 64 hexadecimal digits; for any
\* other s it returns a validation error and leaves the Config and the file
\* as they were.
C5_SetSeedValidates ==
    [][\A p \in Procs :
          (pc[p] = "SetSeed" /\ pc'[p] # "SetSeed")
          => IF IsSeedHex(op[p].seed)
             THEN /\ pc'[p] = "save"
                  /\ conf' = [conf EXCEPT !.Seed = op[p].seed]
                  /\ file' = file
             ELSE /\ pc'[p] = "idle"
                  /\ last'.err = "validation"
                  /\ conf' = conf
                  /\ file' = file]_vars

\* a valid seed was stored and written, then a SetSeed was refused
C5_Witness ==
    /\ last = Returned("SetSeed", "validation")
    /\ conf.Seed = ValidSeedUpper
    /\ file.kind = "json"
    /\ file.doc.seed = JVal("str", ValidSeedUpper)

\* the Config a mutator call o leaves, from the Config c0 it found
Expected(c0, o) ==
    CASE o.name = "SetAcceptAddrs"    -> [c0 EXCEPT !.AcceptAddrs = o.list]
      [] o.name = "AddAcceptAddrs"    ->
            [c0 EXCEPT !.AcceptAddrs = MergeStrings(c0.AcceptAddrs, o.list)]
      [] o.name = "RemoveAcceptAddrs" ->
            [c0 EXCEPT !.AcceptAddrs = RemoveStrings(c0.AcceptAddrs, o.list)]
      [] o.name = "SetAdminAddrs"     -> [c0 EXCEPT !.AdminAddrs = o.list]
      [] o.name = "AddAdminAddrs"     ->
            [c0 EXCEPT !.AdminAddrs = MergeStrings(c0.AdminAddrs, o.list)]
      [] o.name = "RemoveAdminAddrs"  ->
            [c0 EXCEPT !.AdminAddrs = RemoveStrings(c0.AdminAddrs, o.list)]
      [] o.name = "SetAdminHTTPAPI"   -> [c0 EXCEPT !.DisableAdminHTTPAPI = o.flag]
      [] o.name = "SetSeed"           -> [c0 EXCEPT !.Seed = o.seed]
      [] o.name = "SetTunaConfig"     ->
            [c0 EXCEPT !.TunaServiceName = o.tuna.serviceName,
                       !.TunaCountry = o.tuna.country,
                       !.TunaAllowNknAddr = o.tuna.allowNknAddr,
                       !.TunaDisallowNknAddr = o.tuna.disallowNknAddr,
                       !.TunaAllowIp = o.tuna.allowIp,
                       !.TunaDisallowIp = o.tuna.disallowIp]
      [] OTHER -> c0

\* goroutine p returns from c.save() in this step
ReturnsFromSave(p) == pc[p] = "save" /\ pc'[p] = "idle"

\* C6: a mutator whose write fails returns the persistence error, and the
\* Config is then the one the mutator leaves when its write succeeds: the
\* change is not rolled back.
C6_FailedWriteKeepsChange ==
    [][\A p \in Procs :
          ReturnsFromSave(p)
          => /\ conf' = Expected(pre[p], op[p])
             /\ (conf.path = Path /\ file' # JsonFile(Marshal(conf')))
                    => last'.err = "persist"
             /\ last'.err \in {"nil", "persist"}]_vars

\* SetAcceptAddrs([a, b]) has returned the persistence error: the list is
\* [a, b] and the file is the one that was loaded
C6_Witness ==
    /\ last = Returned("SetAcceptAddrs", "persist")
    /\ calls = 1
    /\ conf.AcceptAddrs = Slice(<<"a", "b">>)
    /\ file = JsonFile(DocDuplicates)

\* a goroutine takes a step
GoroutineStep == \E p \in Procs : pc'[p] # pc[p]

\* C7 as claimed: on a Config without a path every mutator applies its
\* change, writes no file and returns no error.
C7_UnboundNeverFails ==
    [][(loaded /\ conf.path = "")
       => /\ GoroutineStep => file' = file
          /\ \A p \in Procs :
                (pc[p] \in {"save", "SetSeed"} /\ pc'[p] = "idle")
                => /\ last'.err = "nil"
                   /\ conf' = Expected(IF pc[p] = "save" THEN pre[p] ELSE conf,
                                       op[p])]_vars

\* C7, amended: on a Config without a path every mutator that reaches
\* c.save() (all but SetSeed with a seed that fails its checks) applies its
\* change, writes no file and returns no error; SetSeed with such a seed
\* returns its validation error and changes nothing.
C7_UnboundSaveIsNoOp ==
    [][(loaded /\ conf.path = "")
       => /\ GoroutineStep => file' = file
          /\ \A p \in Procs :
                /\ ReturnsFromSave(p)
                   => last'.err = "nil" /\ conf' = Expected(pre[p], op[p])
                /\ (pc[p] = "SetSeed" /\ pc'[p] = "idle")
                   => /\ ~ IsSeedHex(op[p].seed)
                      /\ last'.err = "validation"
                      /\ conf' = conf]_vars

\* on a Config from NewConfig, SetAcceptAddrs([a, b]) has returned nil and
\* there is still no file
C7_Witness ==
    /\ loaded
    /\ conf.path = ""
    /\ last = Returned("SetAcceptAddrs", "nil")
    /\ conf.AcceptAddrs = Slice(<<"a", "b">>)
    /\ conf.AdminAddrs = Slice(<<>>)
    /\ file = Absent

\* f holds a JSON document every key of which has a value of its field's type
WellFormed(f) ==
    /\ f.kind = "json"
    /\ f.doc.seed.t \in {"absent", "null", "str"}
    /\ f.doc.tunaServiceName.t \in {"absent", "null", "str"}
    /\ f.doc.disableAdminHttpApi.t \in {"absent", "null", "bool"}
    /\ \A j \in {f.doc.tunaCountry, f.doc.tunaAllowNknAddr,
                 f.doc.tunaDisallowNknAddr, f.doc.tunaAllowIp,
                 f.doc.tunaDisallowIp, f.doc.acceptAddrs, f.doc.adminAddrs} :
          j.t \in {"absent", "null", "arr"}

\* every field of c has the value document doc gives it
HasValuesOf(c, doc) ==
    /\ c.Seed = doc.seed.v
    /\ c.DisableAdminHTTPAPI = doc.disableAdminHttpApi.v
    /\ c.TunaServiceName = doc.tunaServiceName.v
    /\ c.TunaCountry.elems = doc.tunaCountry.v
    /\ c.TunaAllowNknAddr.elems = doc.tunaAllowNknAddr.v
    /\ c.TunaDisallowNknAddr.elems = doc.tunaDisallowNknAddr.v
    /\ c.TunaAllowIp.elems = doc.tunaAllowIp.v
    /\ c.TunaDisallowIp.elems = doc.tunaDisallowIp.v
    /\ c.AcceptAddrs.elems = doc.acceptAddrs.v
    /\ c.AdminAddrs.elems = doc.adminAddrs.v

\* C8: LoadOrNewConfig(path) on an absent file returns a default Config with
\* empty acceptAddrs and adminAddrs, bound to path, and the file then holds
\* it, or returns the error of the write and no Config; on a well-formed
\* file it returns the decoded Config bound to path and writes nothing; on
\* any other file it returns an error and no Config.
C8_LoadOutcomes ==
    [][LoadOrNewConfig
       => IF file.kind = "absent"
          THEN \/ /\ loaded'
                  /\ last'.err = "nil"
                  /\ conf'.path = Path
                  /\ conf'.AcceptAddrs = Slice(<<>>)
                  /\ conf'.AdminAddrs = Slice(<<>>)
                  /\ file'.kind = "json"
                  /\ file'.doc.acceptAddrs = JVal("arr", <<>>)
                  /\ file'.doc.adminAddrs = JVal("arr", <<>>)
                  /\ HasValuesOf(conf', file'.doc)
               \/ /\ ~ loaded'
                  /\ last'.err = "persist"
          ELSE IF WellFormed(file)
          THEN /\ loaded'
               /\ last'.err = "nil"
               /\ conf'.path = Path
               /\ HasValuesOf(conf', file.doc)
               /\ file' = file
          ELSE /\ ~ loaded'
               /\ last'.err \in {"read", "decode"}
               /\ file' = file]_vars

\* the file was absent: LoadOrNewConfig has returned the default Config and
\* written it
C8_Witness ==
    /\ loaded
    /\ last = Returned("LoadOrNewConfig", "nil")
    /\ calls = 0
    /\ conf = [NewConfig EXCEPT !.path = Path]
    /\ file.kind = "json"
    /\ file.doc.acceptAddrs = JVal("arr", <<>>)

\* C9: a LoadOrNewConfig that follows a LoadOrNewConfig that returned a
\* Config (the file was absent, or held one) returns a Config equal to it
\* field for field and leaves the file as it is; a Save() that follows a
\* Save() that returned nil, and returns nil, leaves file and Config as they
\* are.
C9_Idempotent ==
    [][/\ (LoadOrNewConfig /\ loaded /\ last = Returned("LoadOrNewConfig", "nil"))
          => (loaded' /\ conf' = conf /\ file' = file)
       /\ \A p \in Procs :
             (/\ ReturnsFromSave(p)
              /\ op[p].name = "Save"
              /\ last = Returned("Save", "nil")
              /\ last'.err = "nil")
             => (conf' = conf /\ file' = file)]_vars

\* a second Save() in a row is at its write, on the default Config that
\* LoadOrNewConfig made of an absent file
C9_Witness ==
    \E p \in After({"Save"}) :
        /\ last = Returned("Save", "nil")
        /\ conf = [NewConfig EXCEPT !.path = Path]
        /\ file = JsonFile(Marshal(conf))

\* the six fields SetTunaConfig assigns
TunaTuple(c) ==
    [serviceName |-> c.TunaServiceName, country |-> c.TunaCountry,
     allowNknAddr |-> c.TunaAllowNknAddr,
     disallowNknAddr |-> c.TunaDisallowNknAddr,
     allowIp |-> c.TunaAllowIp, disallowIp |-> c.TunaDisallowIp]

\* the six keys of a document
DocTunaTuple(doc) ==
    [serviceName |-> doc.tunaServiceName, country |-> doc.tunaCountry,
     allowNknAddr |-> doc.tunaAllowNknAddr,
     disallowNknAddr |-> doc.tunaDisallowNknAddr,
     allowIp |-> doc.tunaAllowIp, disallowIp |-> doc.tunaDisallowIp]

\* the six values a Config has before any SetTunaConfig (none, or those of
\* the file it was loaded from) and the ones SetTunaConfig is called with:
\* no two of them agree in one field and differ in another
WholeTunas == {ZeroTuna} \cup TunaArgs

\* a list as it is written for a key with omitempty
OmitEmpty(l) == IF l.elems = <<>> THEN JAbsent(<<>>) ELSE JVal("arr", l.elems)

\* C10: whoever holds the read lock finds the six fields of SetTunaConfig
\* all as they were before a call or all as the call sets them, and so does
\* every file that save() wrote, also after a SetTunaConfig whose write
\* failed.
C10_TunaAtomic ==
    /\ readers # {} =>
          /\ TunaTuple(conf) \in WholeTunas
          /\ \A p \in Procs :
                op[p].name = "SetTunaConfig"
                => TunaTuple(conf) \in {TunaTuple(pre[p]), op[p].tuna}
    /\ file.kind = "json" =>
          \E w \in WholeTunas :
              DocTunaTuple(file.doc) =
                  [serviceName |-> IF w.serviceName = "" THEN JAbsent("")
                                   ELSE JVal("str", w.serviceName),
                   country |-> OmitEmpty(w.country),
                   allowNknAddr |-> OmitEmpty(w.allowNknAddr),
                   disallowNknAddr |-> OmitEmpty(w.disallowNknAddr),
                   allowIp |-> OmitEmpty(w.allowIp),
                   disallowIp |-> OmitEmpty(w.disallowIp)]

\* a reader holds the lock after a SetTunaConfig whose write failed: the six
\* fields are the new ones, the file still has the old ones
C10_Witness ==
    /\ readers # {}
    /\ last = Returned("SetTunaConfig", "persist")
    /\ calls = 1
    /\ TunaTuple(conf) = TunaOf("svc2", Slice(<<"t2">>))
    /\ file = JsonFile(DocDuplicates)

(***************************************************************************)
(* Properties of StartClient.                                              *)
(***************************************************************************)
\* the positions of StartClient inside its for loop
LoopStages ==
    {"listening", "received", "decoded", "dispatching", "handlerSave",
     "encoding", "replying"}

\* StartClient leaves position s in this step
Leaves(s) == stage = s /\ stage' # s

\* the sender is one of the patterns of the adminAddrs of this state
Listed == \E i \in 1..Len(conf.AdminAddrs.elems) : conf.AdminAddrs.elems[i] = msg.src

Handled == delivered - Len(inbox) - (IF msg = NoMsg THEN 0 ELSE 1)

\* the steps of the goroutine that runs StartClient
LoopStep ==
    \/ AwaitConnect
    \/ Receive
    \/ DecodeRequest
    \/ Authorize
    \/ HandleRead
    \/ HandleLock
    \/ HandleSave
    \/ MarshalResp
    \/ Reply

\* the goroutine of StartClient is scheduled whenever it can take a step
AdminLive == AdminSpec /\ WF_vars(LoopStep)

\* C12: once in its loop StartClient stays in it, whatever the messages are;
\* it never un-handles a message; and with StartClient in its loop, every
\* message the transport has delivered is eventually handled with the loop
\* back at its receive.
C12_DropAndContinue ==
    /\ [][/\ stage \in LoopStages => stage' \in LoopStages
          /\ Handled' >= Handled]_vars
    /\ \A i \in 1..MaxMsgs :
          (delivered >= i /\ stage \in LoopStages)
              ~> (Handled >= i /\ stage = "listening")

\* three messages were delivered and handled: the first got no reply, the
\* second got one, and the loop is at its receive again
C12_Witness ==
    /\ stage = "listening"
    /\ delivered = 3
    /\ Handled = 3
    /\ replies = <<[id |-> 2, to |-> "a"]>>

\* C13: a message is received only when the loop is at its receive and has
\* finished with the previous one, and it is the oldest of the channel, so
\* messages are received in the order of delivery; msg.Reply is called for
\* the message in hand only, goes to its sender, and is called at most once
\* for a message.
C13_OneAtATime ==
    [][/\ msg'.id # msg.id /\ msg' # NoMsg
          => /\ stage = "listening"
             /\ msg = NoMsg
             /\ msg' = Head(inbox)
             /\ inbox' = Tail(inbox)
             /\ msg'.id = Handled + 1
       /\ replies' # replies
          => /\ replies' = Append(replies, [id |-> msg.id, to |-> msg.src])
             /\ msg.id = Handled + 1
             /\ \A i \in 1..Len(replies) : replies[i].id < msg.id
             /\ msg' = NoMsg]_vars

\* the loop is about to reply to the first message while the second and the
\* third wait in the channel
C13_Witness ==
    /\ stage = "replying"
    /\ msg.id = 1
    /\ Len(inbox) = 2
    /\ inbox[1].id = 2
    /\ replies = <<>>

\* C14: StartClient is in its loop, or holds a message, only after the
\* transport has signalled the connection, also when messages were waiting
\* before; when nkn.NewMultiClient fails StartClient has returned: it never
\* waits for the connection and never enters the loop.
C14_ConnectFirst ==
    /\ [](stage \in LoopStages => connected)
    /\ [](msg # NoMsg => connected)
    /\ [][/\ stage = "init" => stage' \in {"init", "connecting", "failed"}
          /\ stage = "failed" => stage' = "failed"
          /\ (stage' = "listening" /\ stage = "connecting") => connected]_vars

\* a message waits in the channel and the connection has not been signalled:
\* StartClient still waits for the signal
C14_Witness ==
    /\ stage = "connecting"
    /\ ~ connected
    /\ inbox # <<>>

\* C15: the step that ends the encoding of a response or the call of
\* msg.Reply changes neither the Config nor the file, whatever was applied
\* by the handler; after an encoding that failed and after msg.Reply,
\* failed or not, the loop is at its receive with no message in hand; and
\* msg.Reply is called once at most for a message.
C15_BestEffortReply ==
    [][/\ (Leaves("encoding") \/ (stage = "replying" /\ replies' # replies))
          => UNCHANGED confVars
       /\ Leaves("encoding")
          => \/ stage' = "replying" /\ msg' = msg /\ replies' = replies
             \/ stage' = "listening" /\ msg' = NoMsg /\ replies' = replies
       /\ replies' # replies
          => /\ stage' = "listening"
             /\ msg' = NoMsg
             /\ \A i \in 1..Len(replies) : replies[i].id # msg.id]_vars

\* the handler of the first message added b to adminAddrs, the response
\* could not be encoded (there is no reply), and the loop is checking the
\* second message, from b, against the list with b
C15_Witness ==
    /\ stage = "decoded"
    /\ msg.id = 2
    /\ msg.src = "b"
    /\ replies = <<>>
    /\ conf.AdminAddrs = Slice(<<"a", "b">>)

\* C17: decoding and authorizing a message change nothing of the Config, of
\* its lock or of the file, whether the message is let through or dropped;
\* a handler runs, and the Config changes, for a message that was let
\* through only.
C17_AuthorizationIsPure ==
    [][/\ (Leaves("received") \/ Leaves("decoded")) => UNCHANGED confVars
       /\ (stage' \in {"handlerSave", "encoding"} /\ stage' # stage)
          => msg.authorized
       /\ confVars' # confVars
          => msg.authorized /\ stage \in {"dispatching", "handlerSave"}]_vars

\* a message from the unlisted address b with an unknown token was dropped:
\* Config and file are those of the start
C17_Witness ==
    /\ stage = "listening"
    /\ delivered = 1
    /\ Handled = 1
    /\ replies = <<>>
    /\ conf = [NewConfig EXCEPT !.path = Path, !.AdminAddrs = Slice(<<"a">>)]
    /\ file = JsonFile(Marshal(conf))
    /\ last = Returned("none", "nil")

\* C20: the authorization reads adminAddrs when no mutator holds the lock,
\* so what it reads is the list as the mutators that returned left it, those
\* of handlers and those of another context alike: a sender that list does
\* not have, without a valid token, is dropped without reply, a sender it
\* has is let through.
C20_CurrentAdminAddrs ==
    [][Leaves("decoded")
       => /\ writer = NoProc
          /\ \A p \in Procs : pc[p] = "idle"
          /\ IF Listed \/ msg.token \in validTokens
             THEN stage' = "dispatching" /\ msg'.authorized
             ELSE stage' = "listening" /\ msg' = NoMsg /\ replies' = replies]_vars

\* another context has added b to adminAddrs and returned; the second
\* message, from b and without a token, was answered
C20_Witness ==
    /\ stage = "listening"
    /\ delivered = 2
    /\ calls = 1
    /\ pc[OtherProc] = "idle"
    /\ conf.AdminAddrs = Slice(<<"a", "b">>)
    /\ replies = <<[id |-> 2, to |-> "b"]>>

(***************************************************************************)
(* Properties of the Config under concurrent callers.                      *)
(***************************************************************************)
\* the positions of a mutator between c.lock.Lock() and c.lock.Unlock()
WriteStages ==
    {"save", "TunaCountry", "TunaAllowNknAddr", "TunaDisallowNknAddr",
     "TunaAllowIp", "TunaDisallowIp"}

\* the goroutines inside a mutator's hold of the lock
WriteHolders == {p \in Procs : pc[p] \in WriteStages}

\* the goroutines inside a getter's hold of the lock
ReadHolders == {p \in Procs : pc[p] = "rlocked"}

\* C16: at any time nobody holds the lock, or getters hold it, or one
\* mutator holds it and no getter does; and a step of a goroutine that
\* changes the Config or the file is a step of the one mutator that holds
\* the lock for writing before or after it, while no getter holds it.
C16_ReadersWriterExclusion ==
    /\ [](/\ Cardinality(WriteHolders) <= 1
          /\ WriteHolders # {} => ReadHolders = {}
          /\ WriteHolders = (IF writer = NoProc THEN {} ELSE {writer})
          /\ readers = ReadHolders)
    /\ [][(GoroutineStep /\ (conf' # conf \/ file' # file))
          => \E p \in Procs :
                /\ pc'[p] # pc[p]
                /\ writer = p \/ writer' = p
                /\ pc[p] \in WriteStages \/ pc'[p] \in WriteStages
                /\ ReadHolders = {}
                /\ ReadHolders' = {}
                /\ \A q \in Procs \ {p} : pc[q] \notin WriteStages]_vars

\* both goroutines hold the lock for reading, after a mutator has returned
C16_Witness ==
    /\ ReadHolders = Procs
    /\ last = Returned("SetAcceptAddrs", "nil")
    /\ conf.AcceptAddrs = Slice(<<"a", "b">>)

\* the calls that change acceptAddrs or adminAddrs
ListMutators ==
    {"SetAcceptAddrs", "AddAcceptAddrs", "RemoveAcceptAddrs",
     "SetAdminAddrs", "AddAdminAddrs", "RemoveAdminAddrs"}

\* C18: a step of a goroutine that changes acceptAddrs or adminAddrs is the
\* step of one Set, Add or Remove call that takes the free lock and leaves
\* the list that the call computes from the list of that moment, which has
\* the result of every call that had the lock before; until that call has
\* released the lock no other goroutine changes the Config; after an Add the
\* list has every entry it had and every entry of the argument.
C18_NoLostUpdate ==
    [][/\ (/\ GoroutineStep
           /\ \/ conf'.AcceptAddrs # conf.AcceptAddrs
              \/ conf'.AdminAddrs # conf.AdminAddrs)
          => \E p \in Procs :
                /\ pc[p] = "idle" /\ pc'[p] = "save"
                /\ writer = NoProc /\ writer' = p
                /\ op'[p].name \in ListMutators
                /\ conf' = Expected(conf, op'[p])
                /\ pre'[p] = conf
       /\ \A p \in Procs :
             (pc[p] \in WriteStages /\ pc'[p] = pc[p]) => conf' = conf
       /\ \A p \in Procs :
             (pc[p] = "idle" /\ pc'[p] = "save")
             => /\ op'[p].name = "AddAcceptAddrs"
                   => Range(conf'.AcceptAddrs.elems)
                        = Range(conf.AcceptAddrs.elems) \cup Range(op'[p].list.elems)
                /\ op'[p].name = "AddAdminAddrs"
                   => Range(conf'.AdminAddrs.elems)
                        = Range(conf.AdminAddrs.elems) \cup Range(op'[p].list.elems)]_vars

\* one goroutine's AddAcceptAddrs([a]) has returned, the other's
\* AddAcceptAddrs([b]) holds the lock: the list has both entries
C18_Witness ==
    \E p \in After({"AddAcceptAddrs"}) :
        /\ calls = 2
        /\ last = Returned("AddAcceptAddrs", "nil")
        /\ pre[p].AcceptAddrs = Slice(<<"a">>)
        /\ op[p].list = Slice(<<"b">>)
        /\ conf.AcceptAddrs = Slice(<<"a", "b">>)

\* C19: on a Config bound to a path, when the call that returned last
\* returned a write error, the next mutator or Save() that returns nil
\* leaves a file that holds the whole Config, the changes of the failed
\* calls included: loading it gives the Config in memory.
C19_RecoversAfterFailedWrite ==
    [][\A p \in Procs :
          (/\ ReturnsFromSave(p)
           /\ conf.path = Path
           /\ last.err = "persist"
           /\ last'.err = "nil")
          => /\ file' = JsonFile(Marshal(conf'))
             /\ ReloadsTo(file', conf')
             /\ conf' = Expected(pre[p], op[p])]_vars

\* SetAcceptAddrs([a, b]) returned a write error and left the file as it
\* was; Save() now holds the lock, about to write the Config with [a, b]
C19_Witness ==
    \E p \in After({"Save"}) :
        /\ last = Returned("SetAcceptAddrs", "persist")
        /\ calls = 2
        /\ conf.path = Path
        /\ conf.AcceptAddrs = Slice(<<"a", "b">>)
        /\ file = JsonFile(DocDuplicates)

====
